---- MODULE Spec2Model ----
(***************************************************************************)
(* Model of the contact-record service: the validation module              *)
(* (src/unnamed/part_000), the store and the form middleware               *)
(* (src/src/database.js) and the two request handlers (src/src/index.js).  *)
(*                                                                         *)
(* JavaScript values are tagged records [t, s, n]: t is the type, s the    *)
(* characters of a string (a sequence of one-character strings), n the     *)
(* value of a number.                                                      *)
(***************************************************************************)
EXTENDS Integers, Sequences, FiniteSets, TLC

\* ------------------------------------------------------------------ bounds
MaxRows == 2          \* data rows in one uploaded file
MaxRequests == 2      \* requests started in one behaviour
MaxStringLen == 3     \* characters of a string given to a direct call

\* ------------------------------------------------- JavaScript value model
Str(s) == [t |-> "string", s |-> s, n |-> 0]
Num(k) == [t |-> "number", s |-> <<>>, n |-> k]
NaN == [t |-> "NaN", s |-> <<>>, n |-> 0]
Undefined == [t |-> "undefined", s |-> <<>>, n |-> 0]
Null == [t |-> "null", s |-> <<>>, n |-> 0]

IsString(v) == v.t = "string"

\* ToBoolean: "", 0, NaN, undefined and null are falsy
Truthy(v) ==
    CASE v.t = "string" -> v.s # <<>>
      [] v.t = "number" -> v.n # 0
      [] OTHER -> FALSE

\* a || b
OrElse(a, b) == IF Truthy(a) THEN a ELSE b

\* obj[key] of an object that may lack the key
Get(obj, key) == IF key \in DOMAIN obj THEN obj[key] ELSE Undefined

Range(s) == {s[i] : i \in 1..Len(s)}

Lower == {"a", "b", "c", "d", "e", "f", "g", "h", "i", "j", "k", "l", "m",
          "n", "o", "p", "q", "r", "s", "t", "u", "v", "w", "x", "y", "z"}
Upper == {"A", "B", "C", "D", "E", "F", "G", "H", "I", "J", "K", "L", "M",
          "N", "O", "P", "Q", "R", "S", "T", "U", "V", "W", "X", "Y", "Z"}
Digit == {"0", "1", "2", "3", "4", "5", "6", "7", "8", "9"}
Whitespace == {" ", "\t"}
AlphaNum == Lower \cup Upper \cup Digit

DigitVal(c) ==
    CASE c = "0" -> 0 [] c = "1" -> 1 [] c = "2" -> 2 [] c = "3" -> 3
      [] c = "4" -> 4 [] c = "5" -> 5 [] c = "6" -> 6 [] c = "7" -> 7
      [] c = "8" -> 8 [] c = "9" -> 9

DigitChar(d) ==
    CASE d = 0 -> "0" [] d = 1 -> "1" [] d = 2 -> "2" [] d = 3 -> "3"
      [] d = 4 -> "4" [] d = 5 -> "5" [] d = 6 -> "6" [] d = 7 -> "7"
      [] d = 8 -> "8" [] d = 9 -> "9"

\* String.prototype.trim
RECURSIVE TrimLeft(_)
TrimLeft(s) ==
    IF s # <<>> /\ Head(s) \in Whitespace THEN TrimLeft(Tail(s)) ELSE s

RECURSIVE TrimRight(_)
TrimRight(s) ==
    IF s # <<>> /\ s[Len(s)] \in Whitespace
    THEN TrimRight(SubSeq(s, 1, Len(s) - 1))
    ELSE s

Trim(s) == TrimRight(TrimLeft(s))

\* the characters of s that are in keep, in order
RECURSIVE Filter(_, _)
Filter(s, keep) ==
    IF s = <<>> THEN <<>>
    ELSE (IF Head(s) \in keep THEN <<Head(s)>> ELSE <<>>) \o Filter(Tail(s), keep)

\* the characters of s that are not in drop, in order
RECURSIVE Remove(_, _)
Remove(s, drop) ==
    IF s = <<>> THEN <<>>
    ELSE (IF Head(s) \in drop THEN <<>> ELSE <<Head(s)>>) \o Remove(Tail(s), drop)

\* index of the first c in s, 0 when there is none
FirstIndex(s, c) ==
    IF c \in Range(s) THEN CHOOSE i \in 1..Len(s) : s[i] = c /\ \A j \in 1..(i - 1) : s[j] # c
    ELSE 0

\* index of the last c in s, 0 when there is none
LastIndex(s, c) ==
    IF c \in Range(s) THEN CHOOSE i \in 1..Len(s) : s[i] = c /\ \A j \in (i + 1)..Len(s) : s[j] # c
    ELSE 0

\* String.prototype.split on a one-character separator
RECURSIVE Split(_, _)
Split(s, c) ==
    IF c \notin Range(s) THEN <<s>>
    ELSE <<SubSeq(s, 1, FirstIndex(s, c) - 1)>> \o Split(SubSeq(s, FirstIndex(s, c) + 1, Len(s)), c)

\* the decimal digits of a natural number (Number.prototype.toString)
RECURSIVE NatToString(_)
NatToString(k) ==
    IF k < 10 THEN <<DigitChar(k)>> ELSE NatToString(k \div 10) \o <<DigitChar(k % 10)>>

\* String(v) / v.toString() for the values of the model
JsToString(v) ==
    CASE v.t = "string" -> v.s
      [] v.t = "number" -> IF v.n < 0 THEN <<"-">> \o NatToString(-v.n) ELSE NatToString(v.n)
      [] v.t = "NaN" -> <<"N", "a", "N">>
      [] v.t = "undefined" -> <<"u", "n", "d", "e", "f", "i", "n", "e", "d">>
      [] OTHER -> <<"n", "u", "l", "l">>

\* the longest prefix of s made of digits
RECURSIVE DigitPrefix(_)
DigitPrefix(s) ==
    IF s # <<>> /\ Head(s) \in Digit THEN <<Head(s)>> \o DigitPrefix(Tail(s)) ELSE <<>>

RECURSIVE DigitsValue(_)
DigitsValue(s) ==
    IF s = <<>> THEN 0 ELSE 10 * DigitsValue(SubSeq(s, 1, Len(s) - 1)) + DigitVal(s[Len(s)])

\* parseInt(v): leading whitespace skipped, an optional sign, then the
\* longest run of digits; NaN when there is no digit
parseInt(v) ==
    LET str == TrimLeft(JsToString(v))
        neg == str # <<>> /\ Head(str) = "-"
        signed == str # <<>> /\ Head(str) \in {"-", "+"}
        digits == DigitPrefix(IF signed THEN Tail(str) ELSE str)
    IN  IF digits = <<>> THEN NaN
        ELSE Num(IF neg THEN -DigitsValue(digits) ELSE DigitsValue(digits))

\* ---------------------------------------------------------- program constants
MaxNameLength == 20
PhoneDigits == 10
EircodeTailLength == 5
MinAge == 0
MaxAge == 120

\* ------------------------------------------------------------- Validation
\* isValidName that tests the name as given, without trimming it
isValidNameUntrimmed(name) ==
    IF ~Truthy(name) \/ ~IsString(name) THEN FALSE
    ELSE IF Len(name.s) = 0 \/ Len(name.s) > MaxNameLength THEN FALSE
    ELSE \A i \in 1..Len(name.s) : name.s[i] \in AlphaNum

\* Validation.isValidName
isValidName(name) ==
    IF ~Truthy(name) \/ ~IsString(name) THEN FALSE
    ELSE LET trimmed == Trim(name.s)
         IN  IF Len(trimmed) = 0 \/ Len(trimmed) > MaxNameLength THEN FALSE
             ELSE \A i \in 1..Len(trimmed) : trimmed[i] \in AlphaNum

\* the characters validator.isEmail allows in a dot-separated part of the
\* local part (emailUserUtf8Part)
EmailUserChars ==
    AlphaNum \cup {"!", "#", "$", "%", "&", "'", "*", "+", "-", "/", "=", "?", "^", "_", "{", "|", "}", "~"}

\* validator.isFQDN with require_tld: at least two labels, each of letters,
\* digits and inner hyphens, the last one of two or more letters
isFQDN(domain) ==
    LET labels == Split(domain, ".")
        tld == labels[Len(labels)]
    IN  /\ Len(labels) >= 2
        /\ Len(tld) > 1
        /\ \A i \in 1..Len(tld) : tld[i] \in Lower \cup Upper
        /\ \A k \in 1..Len(labels) :
              /\ labels[k] # <<>>
              /\ \A i \in 1..Len(labels[k]) : labels[k][i] \in AlphaNum \cup {"-", "_"}
              /\ labels[k][1] # "-"
              /\ labels[k][Len(labels[k])] # "-"

\* validator.isEmail on a string, default options: the part after the last
\* "@" is a domain name, the part before it dot-separated runs of
\* EmailUserChars
isEmail(str) ==
    LET at == LastIndex(str, "@")
        user == SubSeq(str, 1, at - 1)
        domain == SubSeq(str, at + 1, Len(str))
        parts == Split(user, ".")
    IN  /\ at > 0
        /\ isFQDN(domain)
        /\ \A k \in 1..Len(parts) :
              /\ parts[k] # <<>>
              /\ \A i \in 1..Len(parts[k]) : parts[k][i] \in EmailUserChars

\* validator.isEmail starts with assertString, which throws a TypeError for
\* every value that is not a string
isValidEmailRaises(email) == ~IsString(email)

\* Validation.isValidEmail, for the values it does not raise on
isValidEmail(email) == isEmail(email.s)

\* Validation.isValidPhone
isValidPhone(phone) ==
    IF ~Truthy(phone) THEN FALSE
    ELSE LET cleaned == Filter(JsToString(phone), Digit)
         IN  Len(cleaned) = PhoneDigits

\* eircode.trim() is a TypeError for a truthy value that is not a string
isValidEircodeRaises(eircode) == Truthy(eircode) /\ ~IsString(eircode)

\* Validation.isValidEircode, for the values it does not raise on
isValidEircode(eircode) ==
    IF ~Truthy(eircode) THEN FALSE
    ELSE LET cleaned == Trim(eircode.s)
         IN  /\ Len(cleaned) = 1 + EircodeTailLength
             /\ cleaned[1] \in Digit
             /\ \A i \in 2..Len(cleaned) : cleaned[i] \in AlphaNum

\* Validation.isValidAge
isValidAge(age) ==
    LET ageNum == parseInt(age)
    IN  ageNum.t = "number" /\ ageNum.n >= MinAge /\ ageNum.n <= MaxAge

MsgFirstName == "First name must contain only letters/numbers and be max 20 characters"
MsgLastName == "Last name must contain only letters/numbers and be max 20 characters"
MsgEmail == "Invalid email format"
MsgPhoneRequired == "Phone number is required"
MsgPhone == "Phone number must be exactly 10 digits"
MsgEircodeRequired == "Eircode is required"
MsgEircode == "Eircode must start with a number and be exactly 6 alphanumeric characters"
MsgAge == "Age must be a number between 0 and 120"

\* Validation.validateRecord throws where one of the validators it calls
\* throws: isValidEmail always runs, isValidEircode only for the form
\* source and a truthy eircode
validateRecordRaises(record, source) ==
    \/ isValidEmailRaises(Get(record, "email"))
    \/ source = "form" /\ isValidEircodeRaises(Get(record, "eircode"))

\* validateRecord with "if" in place of the "else if" of the phone rule: a
\* missing phone number gets both messages
validateRecordPhoneTestedTwice(record, source) ==
    LET first == IF isValidName(Get(record, "first_name")) THEN <<>> ELSE <<MsgFirstName>>
        last == IF isValidName(Get(record, "last_name")) THEN <<>> ELSE <<MsgLastName>>
        email == IF isValidEmail(Get(record, "email")) THEN <<>> ELSE <<MsgEmail>>
        phone == (IF ~Truthy(Get(record, "phone_number")) THEN <<MsgPhoneRequired>> ELSE <<>>)
                 \o (IF ~isValidPhone(Get(record, "phone_number")) THEN <<MsgPhone>> ELSE <<>>)
        eircode == IF ~Truthy(Get(record, "eircode")) THEN <<MsgEircodeRequired>>
                   ELSE IF ~isValidEircode(Get(record, "eircode")) THEN <<MsgEircode>>
                   ELSE <<>>
        age == IF Truthy(Get(record, "age")) /\ ~isValidAge(Get(record, "age"))
               THEN <<MsgAge>> ELSE <<>>
        errors == first \o last \o email \o
                  (IF source = "form" THEN phone \o eircode
                   ELSE IF source = "csv" THEN age
                   ELSE <<>>)
    IN  [isValid |-> Len(errors) = 0, errors |-> errors]

\* Validation.validateRecord where it returns: the messages in the order
\* they are pushed
validateRecord(record, source) ==
    LET first == IF isValidName(Get(record, "first_name")) THEN <<>> ELSE <<MsgFirstName>>
        last == IF isValidName(Get(record, "last_name")) THEN <<>> ELSE <<MsgLastName>>
        email == IF isValidEmail(Get(record, "email")) THEN <<>> ELSE <<MsgEmail>>
        phone == IF ~Truthy(Get(record, "phone_number")) THEN <<MsgPhoneRequired>>
                 ELSE IF ~isValidPhone(Get(record, "phone_number")) THEN <<MsgPhone>>
                 ELSE <<>>
        eircode == IF ~Truthy(Get(record, "eircode")) THEN <<MsgEircodeRequired>>
                   ELSE IF ~isValidEircode(Get(record, "eircode")) THEN <<MsgEircode>>
                   ELSE <<>>
        age == IF Truthy(Get(record, "age")) /\ ~isValidAge(Get(record, "age"))
               THEN <<MsgAge>> ELSE <<>>
        errors == first \o last \o email \o
                  (IF source = "form" THEN phone \o eircode
                   ELSE IF source = "csv" THEN age
                   ELSE <<>>)
    IN  [isValid |-> Len(errors) = 0, errors |-> errors]

\* the tag of s that starts at its first character: "<", then characters
\* other than ">", then ">"; 0 when s does not start with a tag
TagEnd(s) ==
    IF s # <<>> /\ Head(s) = "<" THEN FirstIndex(s, ">") ELSE 0

\* the first replace of sanitizeInput: every tag is removed, left to right
RECURSIVE StripTags(_)
StripTags(s) ==
    IF s = <<>> THEN <<>>
    ELSE IF TagEnd(s) > 0 THEN StripTags(SubSeq(s, TagEnd(s) + 1, Len(s)))
    ELSE <<Head(s)>> \o StripTags(Tail(s))

SpecialChars == {"<", ">", "\"", "'", "&"}

\* sanitizeInput that trims before it removes the special characters
sanitizeInputTrimFirst(input) ==
    IF ~IsString(input) THEN input
    ELSE Str(Remove(Trim(StripTags(input.s)), SpecialChars))

\* Validation.sanitizeInput
sanitizeInput(input) ==
    IF ~IsString(input) THEN input
    ELSE Str(Trim(Remove(StripTags(input.s), SpecialChars)))

\* Validation.sanitizeRecord
sanitizeRecord(record) ==
    [key \in DOMAIN record |->
        IF IsString(record[key]) THEN sanitizeInput(record[key]) ELSE record[key]]

\* ------------------------------------------------------------------ store
\* mysql_table without id and created_at: a sequence of rows, email UNIQUE
\* the parameters Database.insertRecord binds
InsertParams(data) ==
    [first_name |-> Get(data, "first_name"),
     last_name |-> Get(data, "last_name"),
     email |-> Get(data, "email"),
     phone_number |-> OrElse(Get(data, "phone_number"), Null),
     eircode |-> OrElse(Get(data, "eircode"), Null),
     age |-> OrElse(Get(data, "age"), Null)]

\* the parameters the second Database.insertBulkRecords binds; the columns
\* the statement does not name take their default, NULL
BulkParams(record) ==
    [first_name |-> Get(record, "first_name"),
     last_name |-> Get(record, "last_name"),
     email |-> Get(record, "email"),
     phone_number |-> Null,
     eircode |-> Null,
     age |-> OrElse(Get(record, "age"), Null)]

HasEmail(table, email) == \E i \in 1..Len(table) : table[i].email = email

\* INSERT with no ON DUPLICATE KEY clause: the UNIQUE key rejects a second
\* row of the same email
PlainInsert(table, p) ==
    IF HasEmail(table, p.email) THEN [code |-> "ER_DUP_ENTRY", table |-> table]
    ELSE [code |-> "OK", table |-> Append(table, p)]

\* the statement of Database.insertRecord: INSERT ... ON DUPLICATE KEY
\* UPDATE first_name, last_name, phone_number, eircode, age
ExecInsertRecord(table, p) ==
    IF HasEmail(table, p.email)
    THEN [code |-> "OK",
          table |-> [i \in 1..Len(table) |->
                        IF table[i].email = p.email THEN p ELSE table[i]]]
    ELSE [code |-> "OK", table |-> Append(table, p)]

\* the statement of the second Database.insertBulkRecords: INSERT ... ON
\* DUPLICATE KEY UPDATE first_name, last_name, age
ExecBulkInsert(table, p) ==
    IF HasEmail(table, p.email)
    THEN [i \in 1..Len(table) |->
             IF table[i].email = p.email
             THEN [table[i] EXCEPT !.first_name = p.first_name,
                                   !.last_name = p.last_name,
                                   !.age = p.age]
             ELSE table[i]]
    ELSE Append(table, p)

\* connection.commit(): the statements of the transaction take effect in
\* the order they were executed
RECURSIVE Commit(_, _)
Commit(table, statements) ==
    IF statements = <<>> THEN table
    ELSE Commit(ExecBulkInsert(table, Head(statements)), Tail(statements))

\* ----------------------------------------------------------- input values
sAnn == <<"A", "n", "n">>
sBob == <<"B", "o", "b">>
sLee == <<"L", "e", "e">>
sPaddedAl == <<" ", "A", "l">>
sTaggedAnn == <<"<", "b", ">", "A", "n", "n">>
sMail == <<"a", "@", "b", ".", "i", "e">>
sQuoteMail == <<"o", "'", "k", "@", "b", ".", "i", "e">>
sBad == <<"b", "a", "d">>
sPhone == <<"0", "1", "2", "3", "4", "5", "6", "7", "8", "9">>
sEircode == <<"1", "A", "2", "B", "3", "C">>

CsvRow(first, last, email, age) ==
    [first_name |-> first, last_name |-> last, email |-> email, age |-> age]

\* the rows csv-parser can hand to the 'data' handler: every cell is a
\* string, and a cell the line does not have is undefined
RowPool ==
    { CsvRow(Str(sAnn), Str(sLee), Str(sMail), Str(<<"3", "0">>)),
      CsvRow(Str(sPaddedAl), Str(sLee), Str(sQuoteMail), Str(<<"0">>)),
      CsvRow(Str(sBob), Str(sLee), Str(sBad), Str(<<"2", "0", "0">>)),
      CsvRow(Str(sBob), Str(sLee), Undefined, Undefined) }

sQuoteOnlyMail == <<"'", "@", "b", ".", "i", "e">>

\* RowPool and rows that differ from its first row in one cell: an age that
\* is no number, an age out of range, an email whose local part is a quote
WideRowPool ==
    RowPool \cup
    { CsvRow(Str(sAnn), Str(sLee), Str(sMail), Str(<<"x">>)),
      CsvRow(Str(sAnn), Str(sLee), Str(sMail), Str(<<"1", "2", "1">>)),
      CsvRow(Str(sAnn), Str(sLee), Str(sQuoteOnlyMail), Str(<<"3", "0">>)) }

FormBody(firstName, lastName, email, phoneNumber, eircode, first_name, last_name, phone_number) ==
    [firstName |-> firstName, lastName |-> lastName, email |-> email,
     phoneNumber |-> phoneNumber, eircode |-> eircode,
     first_name |-> first_name, last_name |-> last_name, phone_number |-> phone_number]

\* the bodies express.json() can hand to the form route
BodyPool ==
    { FormBody(Str(sTaggedAnn), Str(sBob), Str(sMail), Str(sPhone), Str(sEircode),
               Undefined, Undefined, Undefined),
      FormBody(Undefined, Undefined, Str(sMail), Undefined, Str(sEircode),
               Str(sAnn), Str(sLee), Str(sPhone)),
      FormBody(Str(sAnn), Str(sLee), Str(sBad), Str(sPhone), Str(sEircode),
               Undefined, Undefined, Undefined),
      FormBody(Str(sAnn), Str(sLee), Str(sQuoteMail), Str(sPhone), Num(123456),
               Undefined, Undefined, Undefined) }

\* ------------------------------------------------------------------ state
VARIABLES
    store,          \* the committed rows of mysql_table
    impl,           \* which definition of insertBulkRecords the build holds
    nreq,           \* requests started so far
    upc,            \* handleCSVUpload: where the request is
    file,           \* the data rows of the uploaded file read so far; hasFile: req.file is set
    hasFile,
    fileExists,     \* the temporary file at req.file.path is on disk
    rowNumber,
    records,
    errors,
    validated,      \* the record validateRecord was given, per entry of records
    bulkCalls,      \* calls of database.insertBulkRecords by this request
    bulkArg,        \* the argument of the call
    bulkIdx,        \* records of bulkArg executed so far
    tx,             \* statements executed on the connection, not yet committed
    thrown,         \* what the catch of handleCSVUpload caught
    uploadRes,      \* the response of the upload request
    fpc,            \* the form request: where it is
    reqBody,        \* req.body after the middleware
    formValidated,  \* the record the middleware gave to validateRecord
    formData,       \* the record handleFormSubmission gives to insertRecord
    formInserts,    \* calls of database.insertRecord by this request
    formRes,        \* the response of the form request
    csvRows,        \* the rows the uploaded files are made of
    fnCall,         \* a direct call of a Validation function: its name and arguments
    fnRet           \* what the call returned

uploadVars == <<upc, file, hasFile, fileExists, rowNumber, records, errors, validated,
                bulkCalls, bulkArg, bulkIdx, tx, thrown, uploadRes>>
formVars == <<fpc, reqBody, formValidated, formData, formInserts, formRes>>
callVars == <<csvRows, fnCall, fnRet>>
vars == <<store, impl, nreq, uploadVars, formVars, callVars>>

NoRecord == [first_name |-> Undefined, last_name |-> Undefined, email |-> Undefined]
NoBody == FormBody(Undefined, Undefined, Undefined, Undefined, Undefined,
                   Undefined, Undefined, Undefined)

\* ------------------------------------------------------------- responses
Response(status, message) ==
    [status |-> status, message |-> message, errors |-> <<>>,
     totalRows |-> 0, validRecords |-> 0, invalidRecords |-> 0]
NoResponse == Response(0, "")

\* Summary with totalRows counted from the accepted records
SummaryTotalOfRecords(total, recs, errs) ==
    [status |-> 200, message |-> "CSV processing completed", errors |-> errs,
     totalRows |-> Len(recs), validRecords |-> Len(recs), invalidRecords |-> Len(errs)]

\* res.json of handleCSVUpload
Summary(total, recs, errs) ==
    [status |-> 200, message |-> "CSV processing completed", errors |-> errs,
     totalRows |-> total, validRecords |-> Len(recs), invalidRecords |-> Len(errs)]

\* the catch of handleCSVUpload
UploadFailure == Response(500, "Failed to process CSV file")

\* the catch of handleFormSubmission
FormErrorResponse(code) ==
    IF code = "ER_DUP_ENTRY" THEN Response(409, "Email already exists in database")
    ELSE Response(500, "Failed to save form data")

\* a direct call of a function of Validation: the function, and of record,
\* source and input the ones it takes
Call(fn, record, source, input) ==
    [fn |-> fn, record |-> record, source |-> source, input |-> input]
NoCall == Call("none", NoRecord, "", Undefined)

\* what a call returned: raised or not, the result of validateRecord, the
\* boolean of a validator, the value of sanitizeInput and the value of
\* sanitizeInput given that value
Return(raised, validation, accepted, value, again) ==
    [raised |-> raised, isValid |-> validation.isValid, errors |-> validation.errors,
     accepted |-> accepted, value |-> value, again |-> again]
NoValidation == [isValid |-> FALSE, errors |-> <<>>]
NoReturn == Return(FALSE, NoValidation, FALSE, Undefined, Undefined)

\* ------------------------------------------------------------------- Init
\* the service after construction: an empty table, no request in progress
Started ==
    /\ store = <<>>
    /\ impl \in {"pool", "connection"}
    /\ nreq = 0
    /\ upc = "idle"
    /\ file = <<>>
    /\ hasFile = FALSE
    /\ fileExists = FALSE
    /\ rowNumber = 0
    /\ records = <<>>
    /\ errors = <<>>
    /\ validated = <<>>
    /\ bulkCalls = 0
    /\ bulkArg = <<>>
    /\ bulkIdx = 0
    /\ tx = <<>>
    /\ thrown = "none"
    /\ uploadRes = NoResponse
    /\ fpc = "idle"
    /\ reqBody = NoBody
    /\ formValidated = NoRecord
    /\ formData = NoRecord
    /\ formInserts = 0
    /\ formRes = NoResponse
    /\ fnCall = NoCall
    /\ fnRet = NoReturn

Init == Started /\ csvRows = RowPool

\* --------------------------------------------------------- handleCSVUpload
\* POST /api/upload-csv without a file
UploadNoFile ==
    /\ upc = "idle"
    /\ nreq < MaxRequests
    /\ nreq' = nreq + 1
    /\ upc' = "done"
    /\ uploadRes' = Response(400, "No CSV file uploaded")
    /\ UNCHANGED <<store, impl, file, hasFile, fileExists, rowNumber, records, errors,
                   validated, bulkCalls, bulkArg, bulkIdx, tx, thrown, formVars>>
    /\ UNCHANGED callVars

\* POST /api/upload-csv with a file: multer has written it to disk and the
\* handler opens the stream
UploadStart ==
    /\ upc = "idle"
    /\ nreq < MaxRequests
    /\ nreq' = nreq + 1
    /\ hasFile' = TRUE
    /\ fileExists' = TRUE
    /\ upc' = "reading"
    /\ UNCHANGED <<store, impl, file, rowNumber, records, errors, validated, bulkCalls,
                   bulkArg, bulkIdx, tx, thrown, uploadRes, formVars>>
    /\ UNCHANGED callVars

\* the candidate record the 'data' handler builds from a row
CandidateRecord(row) ==
    [first_name |-> row.first_name,
     last_name |-> row.last_name,
     email |-> row.email,
     age |-> parseInt(row.age)]

\* RejectedEntry with the ordinal taken before rowNumber is incremented
RejectedEntryStaleRow(n, record, violations) ==
    [row |-> n - 1, kind |-> "validation", data |-> record, errors |-> violations,
     error |-> ""]

\* the entry pushed for a record that fails validation
RejectedEntry(n, record, violations) ==
    [row |-> n, kind |-> "validation", data |-> record, errors |-> violations,
     error |-> ""]

\* the entry pushed by the catch of the 'data' handler
ParseEntry(n, message) ==
    [row |-> n, kind |-> "parse", data |-> NoRecord, errors |-> <<>>,
     error |-> message]

\* PushRecord with unshift in place of push
UnshiftRecord(list, record) == <<record>> \o list

\* records.push
PushRecord(list, record) == Append(list, record)

\* CsvData where a record that fails validation rejects the promise, so
\* that the catch of handleCSVUpload answers
CsvDataAbortOnInvalid ==
    /\ upc = "reading"
    /\ Len(file) < MaxRows
    /\ \E row \in csvRows :
       LET n == rowNumber + 1
           record == CandidateRecord(row)
           validation == validateRecord(record, "csv")
       IN  /\ file' = Append(file, row)
           /\ rowNumber' = n
           /\ IF validateRecordRaises(record, "csv")
              THEN /\ errors' = Append(errors, ParseEntry(n, "Expected a string but received a undefined"))
                   /\ UNCHANGED <<records, validated, upc, thrown, uploadRes>>
              ELSE IF validation.isValid
              THEN /\ records' = PushRecord(records, sanitizeRecord(record))
                   /\ validated' = PushRecord(validated, record)
                   /\ UNCHANGED <<errors, upc, thrown, uploadRes>>
              ELSE /\ thrown' = "validation"
                   /\ uploadRes' = UploadFailure
                   /\ upc' = "done"
                   /\ UNCHANGED <<errors, records, validated>>
    /\ UNCHANGED <<store, impl, nreq, hasFile, fileExists, bulkCalls, bulkArg,
                   bulkIdx, tx, formVars>>
    /\ UNCHANGED callVars

\* the 'data' handler of the csv stream: the file has one more row
CsvData ==
    /\ upc = "reading"
    /\ Len(file) < MaxRows
    /\ \E row \in csvRows :
       LET n == rowNumber + 1
           record == CandidateRecord(row)
           validation == validateRecord(record, "csv")
       IN  /\ file' = Append(file, row)
           /\ rowNumber' = n
           /\ IF validateRecordRaises(record, "csv")
              THEN /\ errors' = Append(errors, ParseEntry(n, "Expected a string but received a undefined"))
                   /\ UNCHANGED <<records, validated>>
              ELSE IF validation.isValid
              THEN /\ records' = PushRecord(records, sanitizeRecord(record))
                   /\ validated' = PushRecord(validated, record)
                   /\ UNCHANGED errors
              ELSE /\ errors' = Append(errors, RejectedEntry(n, record, validation.errors))
                   /\ UNCHANGED <<records, validated>>
    /\ UNCHANGED <<store, impl, nreq, upc, hasFile, fileExists, bulkCalls, bulkArg,
                   bulkIdx, tx, thrown, uploadRes, formVars>>
    /\ UNCHANGED callVars

\* the 'error' event of the stream: the promise rejects and the catch of
\* handleCSVUpload answers
CsvError ==
    /\ upc = "reading"
    /\ thrown' = "stream"
    /\ uploadRes' = UploadFailure
    /\ upc' = "done"
    /\ UNCHANGED <<store, impl, nreq, file, hasFile, fileExists, rowNumber, records, errors,
                   validated, bulkCalls, bulkArg, bulkIdx, tx, formVars>>
    /\ UNCHANGED callVars

\* the 'end' event, after the last row of the file: the promise resolves. With accepted records the handler
\* calls insertBulkRecords, which gets a connection and begins the
\* transaction; with none it deletes the file and sends the summary
CsvEnd ==
    /\ upc = "reading"
    /\ IF Len(records) > 0
       THEN /\ bulkCalls' = bulkCalls + 1
            /\ bulkArg' = records
            /\ upc' = "transaction"
            /\ UNCHANGED <<fileExists, uploadRes>>
       ELSE /\ fileExists' = FALSE
            /\ uploadRes' = Summary(rowNumber, records, errors)
            /\ upc' = "done"
            /\ UNCHANGED <<bulkCalls, bulkArg>>
    /\ UNCHANGED <<store, impl, nreq, file, hasFile, rowNumber, records, errors,
                   validated, bulkIdx, tx, thrown, formVars>>
    /\ UNCHANGED callVars

\* the store fails getConnection, beginTransaction, the next statement of
\* the loop or commit: rollback on the connection (nothing to roll back
\* before the transaction began), then the error reaches the catch of
\* handleCSVUpload
BulkFail ==
    /\ upc = "transaction"
    /\ tx' = <<>>
    /\ thrown' = "store"
    /\ uploadRes' = UploadFailure
    /\ upc' = "done"
    /\ UNCHANGED <<store, impl, nreq, file, hasFile, fileExists, rowNumber, records, errors,
                   validated, bulkCalls, bulkArg, bulkIdx, formVars>>
    /\ UNCHANGED callVars

\* one turn of the loop of insertBulkRecords. The first definition calls
\* insertRecord, which executes on the pool: the statement commits at
\* once, outside the transaction of the connection. The second executes
\* on the connection: the statement is part of the transaction.
BulkInsert ==
    /\ upc = "transaction"
    /\ bulkIdx < Len(bulkArg)
    /\ bulkIdx' = bulkIdx + 1
    /\ IF impl = "pool"
       THEN /\ store' = ExecInsertRecord(store, InsertParams(bulkArg[bulkIdx + 1])).table
            /\ UNCHANGED tx
       ELSE /\ tx' = Append(tx, BulkParams(bulkArg[bulkIdx + 1]))
            /\ UNCHANGED store
    /\ UNCHANGED <<impl, nreq, upc, file, hasFile, fileExists, rowNumber, records, errors,
                   validated, bulkCalls, bulkArg, thrown, uploadRes, formVars>>
    /\ UNCHANGED callVars

\* connection.commit() after the loop; insertBulkRecords returns, the
\* handler deletes the file and sends the summary
BulkCommit ==
    /\ upc = "transaction"
    /\ bulkIdx = Len(bulkArg)
    /\ store' = Commit(store, tx)
    /\ tx' = <<>>
    /\ fileExists' = FALSE
    /\ uploadRes' = Summary(rowNumber, records, errors)
    /\ upc' = "done"
    /\ UNCHANGED <<impl, nreq, file, hasFile, rowNumber, records, errors,
                   validated, bulkCalls, bulkArg, bulkIdx, thrown, formVars>>
    /\ UNCHANGED callVars

\* the request is over; the next one starts from fresh locals
UploadReset ==
    /\ upc = "done"
    /\ upc' = "idle"
    /\ file' = <<>>
    /\ hasFile' = FALSE
    /\ fileExists' = FALSE
    /\ rowNumber' = 0
    /\ records' = <<>>
    /\ errors' = <<>>
    /\ validated' = <<>>
    /\ bulkCalls' = 0
    /\ bulkArg' = <<>>
    /\ bulkIdx' = 0
    /\ tx' = <<>>
    /\ thrown' = "none"
    /\ uploadRes' = NoResponse
    /\ UNCHANGED <<store, impl, nreq, formVars>>
    /\ UNCHANGED callVars

\* ------------------------------------------------- form: middleware, handler
requiredFields == <<"firstName", "lastName", "email", "phoneNumber", "eircode">>

\* the first required field the body lacks, "" when it has them all
MissingField(body) ==
    IF \E i \in 1..Len(requiredFields) : ~Truthy(body[requiredFields[i]])
    THEN requiredFields[CHOOSE i \in 1..Len(requiredFields) :
                            /\ ~Truthy(body[requiredFields[i]])
                            /\ \A j \in 1..(i - 1) : Truthy(body[requiredFields[j]])]
    ELSE ""

\* the snake_case record both the middleware and the handler build from
\* req.body
FormRecord(body) ==
    [first_name |-> OrElse(body.firstName, body.first_name),
     last_name |-> OrElse(body.lastName, body.last_name),
     email |-> body.email,
     phone_number |-> OrElse(body.phoneNumber, body.phone_number),
     eircode |-> body.eircode]

\* what SecurityMiddleware.validateFormInput does with a sanitized body:
\* "next", or the response it sends
MiddlewareOutcome(body) ==
    LET missing == MissingField(body)
        record == FormRecord(body)
        validation == validateRecord(record, "form")
    IN  IF missing # ""
        THEN [next |-> FALSE, res |-> Response(400, "Missing required field: " \o missing)]
        ELSE IF validateRecordRaises(record, "form")
        THEN [next |-> FALSE, res |-> Response(500, "Internal server error during validation")]
        ELSE IF ~validation.isValid
        THEN [next |-> FALSE,
              res |-> [Response(400, "Validation failed") EXCEPT !.errors = validation.errors]]
        ELSE [next |-> TRUE, res |-> NoResponse]

\* POST /api/submit-form: the middleware sanitizes req.body and checks it;
\* on next() the handler builds formData and calls insertRecord
FormSubmit ==
    /\ fpc = "idle"
    /\ nreq < MaxRequests
    /\ nreq' = nreq + 1
    /\ \E body \in BodyPool :
          LET sanitized == sanitizeRecord(body)
              outcome == MiddlewareOutcome(sanitized)
          IN  /\ reqBody' = sanitized
              /\ IF outcome.next
                 THEN /\ formValidated' = FormRecord(sanitized)
                      /\ formData' = FormRecord(sanitized)
                      /\ formInserts' = formInserts + 1
                      /\ fpc' = "insert"
                      /\ UNCHANGED formRes
                 ELSE /\ formValidated' =
                            (IF MissingField(sanitized) = "" THEN FormRecord(sanitized) ELSE NoRecord)
                      /\ formRes' = outcome.res
                      /\ fpc' = "done"
                      /\ UNCHANGED <<formData, formInserts>>
    /\ UNCHANGED <<store, impl, uploadVars>>
    /\ UNCHANGED callVars

\* a transaction that has written the row of this email holds its lock
LockedByTransaction(email) == \E i \in 1..Len(tx) : tx[i].email = email

\* the statement of insertRecord runs on the pool; the handler answers
\* with the record, or its catch with the error
FormInsert ==
    /\ fpc = "insert"
    /\ ~LockedByTransaction(formData.email)
    /\ LET r == ExecInsertRecord(store, InsertParams(formData))
       IN  IF r.code = "OK"
           THEN /\ store' = r.table
                /\ formRes' = Response(200, "Form data saved successfully")
           ELSE /\ formRes' = FormErrorResponse(r.code)
                /\ UNCHANGED store
    /\ fpc' = "done"
    /\ UNCHANGED <<impl, nreq, uploadVars, reqBody, formValidated, formData, formInserts>>
    /\ UNCHANGED callVars

\* the store is unreachable: pool.execute rejects
FormInsertFail ==
    /\ fpc = "insert"
    /\ formRes' = FormErrorResponse("ECONNREFUSED")
    /\ fpc' = "done"
    /\ UNCHANGED <<store, impl, nreq, uploadVars, reqBody, formValidated, formData, formInserts>>
    /\ UNCHANGED callVars

\* the request is over
FormReset ==
    /\ fpc = "done"
    /\ fpc' = "idle"
    /\ reqBody' = NoBody
    /\ formValidated' = NoRecord
    /\ formData' = NoRecord
    /\ formInserts' = 0
    /\ formRes' = NoResponse
    /\ UNCHANGED <<store, impl, nreq, uploadVars>>
    /\ UNCHANGED callVars

\* ------------------------------------------------------------------- Next
Next ==
    \/ UploadNoFile
    \/ UploadStart
    \/ CsvData
    \/ CsvError
    \/ CsvEnd
    \/ BulkFail
    \/ BulkInsert
    \/ BulkCommit
    \/ UploadReset
    \/ FormSubmit
    \/ FormInsert
    \/ FormInsertFail
    \/ FormReset

Spec == Init /\ [][Next]_vars

\* ------------------------------------------- the batch path on its own
\* uploads only, over the wider pool of rows
BatchInit == Started /\ csvRows = WideRowPool

BatchNext ==
    \/ UploadNoFile
    \/ UploadStart
    \/ CsvData
    \/ CsvError
    \/ CsvEnd
    \/ BulkFail
    \/ BulkInsert
    \/ BulkCommit
    \/ UploadReset

BatchSpec == BatchInit /\ [][BatchNext]_vars

\* --------------------------------- direct calls of the Validation functions
\* every string of at most MaxStringLen characters of chars
StringsOver(chars) == UNION {[1..n -> chars] : n \in 0..MaxStringLen}

RECURSIVE Repeat(_, _)
Repeat(c, n) == IF n = 0 THEN <<>> ELSE <<c>> \o Repeat(c, n - 1)

\* the names isValidName is called with: short strings of letters, digits,
\* whitespace and punctuation, names at and over the length limit, and
\* values that are no string
NameChars == {"a", "Z", "7", " ", "-"}
NameArgs ==
    {Str(s) : s \in StringsOver(NameChars)} \cup
    { Str(Repeat("a", MaxNameLength)),
      Str(Repeat("a", MaxNameLength + 1)),
      Str(<<" ">> \o Repeat("a", MaxNameLength) \o <<"\t">>),
      Undefined, Num(7) }

\* the strings sanitizeInput is called with
SanitizeChars == {"a", " ", "<", ">", "'", "&"}
SanitizeArgs == {Str(s) : s \in StringsOver(SanitizeChars)}

\* the records validateRecord is called with: per field a valid value, the
\* ways it can fail and the ways it can lack
RecordArgs ==
    [first_name : {Str(sAnn), Str(<<"A", " ", "n">>), Undefined},
     last_name : {Str(sLee), Str(<<>>)},
     email : {Str(sMail), Str(sBad), Undefined},
     phone_number : {Str(sPhone), Str(<<"1", "2">>), Undefined},
     eircode : {Str(sEircode), Str(<<"A", "1">>), Undefined, Num(123456)},
     age : {Num(30), Num(0), Num(121), Num(-1), NaN, Undefined}]
SourceArgs == {"form", "csv"}

ValidationInit == Started /\ csvRows = RowPool

CallValidateRecord ==
    /\ fnCall.fn = "none"
    /\ \E record \in RecordArgs, source \in SourceArgs :
          /\ fnCall' = Call("validateRecord", record, source, Undefined)
          /\ fnRet' = IF validateRecordRaises(record, source)
                      THEN Return(TRUE, NoValidation, FALSE, Undefined, Undefined)
                      ELSE Return(FALSE, validateRecord(record, source), FALSE,
                                  Undefined, Undefined)
    /\ UNCHANGED <<store, impl, nreq, uploadVars, formVars, csvRows>>

CallIsValidName ==
    /\ fnCall.fn = "none"
    /\ \E name \in NameArgs :
          /\ fnCall' = Call("isValidName", NoRecord, "", name)
          /\ fnRet' = Return(FALSE, NoValidation, isValidName(name), Undefined, Undefined)
    /\ UNCHANGED <<store, impl, nreq, uploadVars, formVars, csvRows>>

\* sanitizeInput, and sanitizeInput again on what it returned
CallSanitizeInput ==
    /\ fnCall.fn = "none"
    /\ \E input \in SanitizeArgs :
          /\ fnCall' = Call("sanitizeInput", NoRecord, "", input)
          /\ fnRet' = Return(FALSE, NoValidation, FALSE, sanitizeInput(input),
                             sanitizeInput(sanitizeInput(input)))
    /\ UNCHANGED <<store, impl, nreq, uploadVars, formVars, csvRows>>

\* the caller is done with the result
CallDone ==
    /\ fnCall.fn # "none"
    /\ fnCall' = NoCall
    /\ fnRet' = NoReturn
    /\ UNCHANGED <<store, impl, nreq, uploadVars, formVars, csvRows>>

ValidationNext ==
    \/ CallValidateRecord
    \/ CallIsValidName
    \/ CallSanitizeInput
    \/ CallDone

ValidationSpec == ValidationInit /\ [][ValidationNext]_vars

\* ----------------------------------------------------------------- claims
\* what the batch rules say of one row, computed from the row alone
RowRaises(row) == validateRecordRaises(CandidateRecord(row), "csv")
RowPasses(row) == ~RowRaises(row) /\ validateRecord(CandidateRecord(row), "csv").isValid
RowVerdict == [row \in WideRowPool |-> RowPasses(row)]
RowAccepted(row) == RowVerdict[row]
RowRejected(row) == ~RowVerdict[row]
SanitizedCandidate == [row \in WideRowPool |-> sanitizeRecord(CandidateRecord(row))]

\* the accepted records of a file, sanitized, in row order
RECURSIVE AcceptedOf(_)
AcceptedOf(rows) ==
    IF rows = <<>> THEN <<>>
    ELSE (IF RowAccepted(Head(rows)) THEN <<SanitizedCandidate[Head(rows)]>> ELSE <<>>)
         \o AcceptedOf(Tail(rows))

\* the row stream of the upload has ended without a stream error
StreamEnded ==
    /\ hasFile
    /\ \/ upc = "transaction"
       \/ upc = "done" /\ thrown # "stream"

\* C1: batch persistence is all-or-nothing. Stated for an upload that is the
\* only request so far, so that every row of the store is the batch's: when
\* the store fails during insertBulkRecords, no record of the batch is
\* committed and the request ends with the 500 pipeline-failure response.
C1_BulkAllOrNothing ==
    (nreq = 1 /\ thrown = "store") =>
        /\ store = <<>>
        /\ uploadRes = UploadFailure

\* C2: after the row stream ends, a batch with at least one accepted row
\* makes exactly one insertBulkRecords call whose argument is the accepted
\* records in row order, and a batch with none makes no store call; before
\* the stream ends there is no call.
C2_OneBulkCallInRowOrder ==
    /\ bulkCalls <= 1
    /\ ~StreamEnded => bulkCalls = 0
    /\ StreamEnded =>
          IF \E i \in 1..Len(file) : RowAccepted(file[i])
          THEN bulkCalls = 1 /\ bulkArg = AcceptedOf(file) /\ bulkArg = records
          ELSE bulkCalls = 0 /\ bulkIdx = 0 /\ tx = <<>> /\ upc = "done"

\* C2 witness: a finished upload whose one bulk call got two different
\* accepted records
C2_Witness ==
    /\ upc = "done"
    /\ uploadRes.status = 200
    /\ bulkCalls = 1
    /\ Len(bulkArg) = 2
    /\ bulkArg[1] # bulkArg[2]

\* C3: a row-level validation failure never aborts a batch upload. Every
\* row read so far that the rules reject has its entry in errors, the
\* failure response comes only from a stream error or a store failure, and
\* once the stream has ended every row of the file has been read.
C3_RejectionNeverAborts ==
    /\ \A i \in 1..rowNumber :
          RowRejected(file[i]) => \E k \in 1..Len(errors) : errors[k].row = i
    /\ uploadRes.status = 500 => thrown \in {"stream", "store"}
    /\ (upc = "reading" /\ Len(errors) > 0) => thrown = "none" /\ uploadRes = NoResponse
    /\ StreamEnded => rowNumber = Len(file)
    /\ uploadRes.status = 200 =>
          /\ uploadRes.totalRows = Len(file)
          /\ uploadRes.invalidRecords = Cardinality({i \in 1..Len(file) : RowRejected(file[i])})

\* C3 witness: a summary for a file whose first row was rejected and whose
\* second row was accepted
C3_Witness ==
    /\ uploadRes.status = 200
    /\ Len(file) = 2
    /\ RowRejected(file[1])
    /\ RowAccepted(file[2])
    /\ uploadRes.validRecords = 1
    /\ bulkCalls = 1

\* C4: once an upload with a file has been processed, the temporary file
\* has been deleted, whatever the outcome.
C4_FileDeletedOnEveryOutcome ==
    (upc = "done" /\ hasFile) => ~fileExists

\* the record a form request was about is invalid: validation raises on it
\* or returns violations
FormRecordInvalid(body) ==
    \/ validateRecordRaises(FormRecord(body), "form")
    \/ ~validateRecord(FormRecord(body), "form").isValid

\* C5: in the form path insertRecord is called at most once, only for a
\* sanitized record that validateRecord(record, 'form') found valid, and an
\* invalid submission ends with a validation-failure response (400) and
\* no store call.
C5_FormStoreOnlyWhenValid ==
    /\ formInserts <= 1
    /\ formInserts = 1 =>
          /\ reqBody = sanitizeRecord(reqBody)
          /\ formData = FormRecord(reqBody)
          /\ ~FormRecordInvalid(reqBody)
    /\ (fpc = "done" /\ FormRecordInvalid(reqBody)) =>
          /\ formInserts = 0
          /\ formRes.status = 400

\* the body names its fields in snake_case only
SnakeCaseOnly(body) ==
    /\ ~Truthy(body.firstName) /\ ~Truthy(body.lastName) /\ ~Truthy(body.phoneNumber)
    /\ Truthy(body.first_name) /\ Truthy(body.last_name) /\ Truthy(body.phone_number)

\* C6: a snake_case submission whose values satisfy all form rules is
\* accepted like the camelCase one: it is never answered with a
\* validation failure.
C6_SnakeCaseAccepted ==
    (fpc = "done" /\ SnakeCaseOnly(reqBody) /\ ~FormRecordInvalid(reqBody)) =>
        formRes.status # 400

UniqueEmails(table) ==
    \A i, j \in 1..Len(table) : table[i].email = table[j].email => i = j

\* the row of the given email, for a table with one
RowOf(table, email) == table[CHOOSE i \in 1..Len(table) : table[i].email = email]

\* C7: after every step of every interleaving of form submissions and
\* batch uploads the store holds at most one row per email; no form
\* request is answered with the conflict response; and when the statement
\* of a valid submission runs, the request succeeds and the row of its
\* email holds the submitted fields, whether or not the email was present.
C7_UpsertByEmail ==
    [][/\ UniqueEmails(store')
       /\ formRes'.status # 409
       /\ (fpc = "insert" /\ fpc' = "done" /\ store' # store) =>
             /\ formRes'.status = 200
             /\ HasEmail(store', formData.email)
             /\ RowOf(store', formData.email) = InsertParams(formData)
       /\ (fpc = "insert" /\ fpc' = "done" /\ formRes'.status = 200) =>
             /\ Len(store') = Len(store) + (IF HasEmail(store, formData.email) THEN 0 ELSE 1)
             /\ HasEmail(store', formData.email)
             /\ RowOf(store', formData.email) = InsertParams(formData)]_vars

\* C7 witness: under the second insertBulkRecords a batch stored a row with
\* age 30, and a later valid form submission of the same email succeeded
\* and overwrote it (the form writes a NULL age)
C7_Witness ==
    /\ impl = "connection"
    /\ upc = "done" /\ uploadRes.status = 200
    /\ Len(records) = 1 /\ records[1].age = Num(30)
    /\ fpc = "done" /\ formRes.status = 200
    /\ records[1].email = formData.email
    /\ Len(store) = 1
    /\ store[1] = InsertParams(formData)

\* C8: row ordinals start at 1 and the errors list keeps stream order: each
\* entry's row is the position in the file of a rejected row, the rows are
\* strictly increasing, and the summary carries the list unchanged.
C8_ErrorsInStreamOrder ==
    /\ \A k \in 1..Len(errors) :
          /\ errors[k].row \in 1..rowNumber
          /\ RowRejected(file[errors[k].row])
          /\ errors[k].kind = "validation" =>
                errors[k].data = CandidateRecord(file[errors[k].row])
          /\ k > 1 => errors[k - 1].row < errors[k].row
    /\ uploadRes.status = 200 => uploadRes.errors = errors

\* C8 witness: a summary whose only entry is for the second row
C8_Witness ==
    /\ uploadRes.status = 200
    /\ Len(uploadRes.errors) = 1
    /\ uploadRes.errors[1].row = 2
    /\ uploadRes.errors[1].kind = "validation"

\* C9: sanitization runs before validation in both pipelines: the record
\* given to validateRecord is the sanitized record, the one persisted.
C9_SanitizeBeforeValidate ==
    /\ \A i \in 1..Len(records) :
          /\ validated[i] = sanitizeRecord(validated[i])
          /\ validated[i] = records[i]
    /\ formInserts = 1 =>
          /\ formValidated = sanitizeRecord(formValidated)
          /\ formValidated = formData

\* C10: record validation never raises: no row is reported as a parse
\* failure because validateRecord threw, and no form request ends with the
\* internal error of the validation middleware.
C10_ValidationNeverRaises ==
    /\ \A k \in 1..Len(errors) : errors[k].kind # "parse"
    /\ formRes.status = 500 => formRes.message # "Internal server error during validation"

\* the messages of each field, in the order the fields are tested
FieldMessages(source) ==
    <<{MsgFirstName}, {MsgLastName}, {MsgEmail}>> \o
    (IF source = "form" THEN <<{MsgPhoneRequired, MsgPhone}, {MsgEircodeRequired, MsgEircode}>>
     ELSE <<{MsgAge}>>)

\* the field a message is about, 0 for a message of no field
FieldOf(message, source) ==
    LET fields == FieldMessages(source)
    IN  IF \E k \in 1..Len(fields) : message \in fields[k]
        THEN CHOOSE k \in 1..Len(fields) : message \in fields[k]
        ELSE 0

\* the k-th field of the record fails its rule
FieldFails(record, source, k) ==
    CASE k = 1 -> ~isValidName(Get(record, "first_name"))
      [] k = 2 -> ~isValidName(Get(record, "last_name"))
      [] k = 3 -> ~isValidEmail(Get(record, "email"))
      [] k = 4 /\ source = "form" -> ~isValidPhone(Get(record, "phone_number"))
      [] k = 5 /\ source = "form" -> ~isValidEircode(Get(record, "eircode"))
      [] OTHER -> ~isValidAge(Get(record, "age"))

\* C11: where validateRecord returns, every message is the message of a
\* failing field, no field has two messages, and the messages follow the
\* field order first_name, last_name, email, then phone_number and eircode
\* for the form source or age for the batch source; the first three fields
\* and the form fields have a message whenever they fail; and the result is
\* valid iff the list is empty. (The list is a function of record and
\* source alone: validateRecord reads nothing else.)
C11_OneMessagePerFieldInOrder ==
    (fnCall.fn = "validateRecord" /\ ~fnRet.raised) =>
        LET list == fnRet.errors
            source == fnCall.source
            failing == FieldFails(fnCall.record, source, 1) \/ FieldFails(fnCall.record, source, 2)
        IN  /\ \A i \in 1..Len(list) :
                  /\ FieldOf(list[i], source) # 0
                  /\ FieldFails(fnCall.record, source, FieldOf(list[i], source))
                  /\ i > 1 => FieldOf(list[i - 1], source) < FieldOf(list[i], source)
            /\ \A k \in 1..(IF source = "form" THEN 5 ELSE 3) :
                  FieldFails(fnCall.record, source, k) =>
                      \E i \in 1..Len(list) : FieldOf(list[i], source) = k
            /\ fnRet.isValid <=> list = <<>>

\* C11 witness: a form record whose five fields all fail, the phone number
\* by its absence
C11_Witness ==
    /\ fnCall.fn = "validateRecord"
    /\ fnCall.source = "form"
    /\ fnCall.record.phone_number = Undefined
    /\ ~fnRet.raised
    /\ Len(fnRet.errors) = 5

\* the name matches ^[A-Za-z0-9]{1,20}$
MatchesNamePattern(s) ==
    /\ Len(s) >= 1
    /\ Len(s) <= MaxNameLength
    /\ \A i \in 1..Len(s) : s[i] \in AlphaNum

\* C12 as stated: isValidName accepts every name matching
\* ^[A-Za-z0-9]{1,20}$ and rejects every name that contains whitespace or
\* punctuation, has length 0 or has length greater than 20.
C12_NameRule ==
    (fnCall.fn = "isValidName" /\ IsString(fnCall.input)) =>
        LET s == fnCall.input.s
        IN  /\ MatchesNamePattern(s) => fnRet.accepted
            /\ (\/ \E i \in 1..Len(s) : s[i] \notin AlphaNum
                \/ Len(s) = 0
                \/ Len(s) > MaxNameLength) => ~fnRet.accepted

\* C12 amended: the rule is applied to the trimmed name. isValidName
\* accepts a string iff, with its leading and trailing whitespace removed,
\* it matches ^[A-Za-z0-9]{1,20}$: inner whitespace, punctuation, length 0
\* and length greater than 20 after trimming are rejected; and it rejects
\* every value that is no string.
C12_NameRuleOfTrimmed ==
    fnCall.fn = "isValidName" =>
        (fnRet.accepted <=>
            /\ IsString(fnCall.input)
            /\ MatchesNamePattern(Trim(fnCall.input.s)))

\* C12 witness: a name of 20 letters between whitespace is accepted
C12_Witness ==
    /\ fnCall.fn = "isValidName"
    /\ IsString(fnCall.input)
    /\ Len(fnCall.input.s) = MaxNameLength + 2
    /\ Head(fnCall.input.s) \in Whitespace
    /\ fnRet.accepted

\* C13: sanitizeInput is idempotent on strings, and what it returns has
\* none of the characters < > " ' & and no leading or trailing whitespace.
C13_SanitizeIdempotent ==
    fnCall.fn = "sanitizeInput" =>
        LET s == fnRet.value.s
        IN  /\ fnRet.again = fnRet.value
            /\ IsString(fnRet.value)
            /\ \A i \in 1..Len(s) : s[i] \notin SpecialChars
            /\ s # <<>> => (s[1] \notin Whitespace /\ s[Len(s)] \notin Whitespace)

\* C13 witness: a quote, a blank and a letter are sanitized to the letter
C13_Witness ==
    /\ fnCall.fn = "sanitizeInput"
    /\ fnCall.input = Str(<<"'", " ", "a">>)
    /\ fnRet.value = Str(<<"a">>)

\* the age cell of the row is there, and is no integer or an integer
\* outside 0..120
AgeCellFails(row) ==
    /\ row.age # Undefined
    /\ LET age == parseInt(row.age)
       IN  age.t # "number" \/ age.n < MinAge \/ age.n > MaxAge

\* C14: in the batch path a row whose age cell is there and does not parse
\* as an integer, or parses outside 0..120, is rejected: errors has an
\* entry of that row which carries the age message (and with it, by C16,
\* the row is not among the accepted records).
C14_AgeRuleWheneverPresent ==
    \A i \in 1..Len(file) :
        AgeCellFails(file[i]) =>
            \E k \in 1..Len(errors) :
                /\ errors[k].row = i
                /\ MsgAge \in Range(errors[k].errors)

\* C15: every record of the argument of insertBulkRecords passes the batch
\* rules in the form in which it is stored.
C15_StoredFormIsValid ==
    \A i \in 1..Len(bulkArg) :
        /\ ~validateRecordRaises(bulkArg[i], "csv")
        /\ validateRecord(bulkArg[i], "csv").isValid

\* C16: each row read is in exactly one of records and errors: rowNumber =
\* records.length + errors.length at every point of the upload, each entry
\* of errors is of another row, and the summary has totalRows =
\* validRecords + invalidRecords, the numbers of the two lists.
C16_RowsPartitioned ==
    /\ rowNumber = Len(records) + Len(errors)
    /\ rowNumber = Len(file)
    /\ \A j, k \in 1..Len(errors) : errors[j].row = errors[k].row => j = k
    /\ \A k \in 1..Len(errors) : errors[k].row \in 1..rowNumber
    /\ uploadRes.status = 200 =>
          /\ uploadRes.totalRows = uploadRes.validRecords + uploadRes.invalidRecords
          /\ uploadRes.totalRows = rowNumber
          /\ uploadRes.validRecords = Len(records)
          /\ uploadRes.invalidRecords = Len(errors)

\* C16 witness: the summary of a file with an accepted and a rejected row
C16_Witness ==
    /\ uploadRes.status = 200
    /\ uploadRes.totalRows = 2
    /\ uploadRes.validRecords = 1
    /\ uploadRes.invalidRecords = 1

\* the record is the last one of the accepted records with its email
LastOfEmail(i) == \A j \in (i + 1)..Len(records) : records[j].email # records[i].email

\* C17: after a successful bulk persist, the age stored for the email of an
\* accepted record is the age of the record when that is an integer in
\* 0..120, 0 included, and null only when the record has no age. Stated for
\* an upload that is the only request so far, and of the last record of
\* each email, which is the one that stays.
C17_StoredAgeIsRecordAge ==
    (nreq = 1 /\ upc = "done" /\ uploadRes.status = 200) =>
        \A i \in 1..Len(records) :
            LastOfEmail(i) =>
                /\ HasEmail(store, records[i].email)
                /\ (records[i].age.t = "number"
                    /\ records[i].age.n >= MinAge /\ records[i].age.n <= MaxAge) =>
                        RowOf(store, records[i].email).age = records[i].age
                /\ RowOf(store, records[i].email).age = Null =>
                        records[i].age.t # "number"

====
